---- MODULE Spec2Model ----
(***************************************************************************)
(* State-machine model of the atom-jshint package (src/index.js).          *)
(*                                                                         *)
(* The package keeps two module-level maps keyed by editor id              *)
(* (markersByEditorId, errorsByEditorId), runs JSHint on the active        *)
(* editor, aggregates the reported errors per line, reconciles one marker  *)
(* per row, shows a status bar summary, and wires debounced lint handlers  *)
(* to editor events.                                                       *)
(*                                                                         *)
(* Host objects (editors, markers, gutter tooltips, the status bar, event  *)
(* subscriptions, debounce timers) are modelled by what the package does   *)
(* to them.  The lint engine and the config loader are external: the       *)
(* result of one invocation is an input of the action that runs lint().    *)
(***************************************************************************)
EXTENDS Integers, Sequences, FiniteSets, TLC

VARIABLES
    pc,                     \* "loaded" (module required), "active", "failed"
    editors,                \* ids of the open editors
    active,                 \* atom.workspace.getActiveEditor(): an id or NoEditor
    grammar,                \* getGrammar().name of the active editor
    cursorRow,              \* getCursorBufferPosition().row of the active editor
    validateOnlyOnSave,     \* atom.config 'jshint.validateOnlyOnSave'
    markersByEditorId,      \* editor id -> (row -> marker handle)
    errorsByEditorId,       \* editor id -> sparse array: line -> group
    statusBar,              \* the '#jshint-statusbar' elements of the status bar
    hostMarkers,            \* live markers of the host editors
    tooltips,               \* <<editor id, row>> -> tooltip bound to the gutter row
    bufferSubs,             \* editor id -> plugin subscriptions on its buffer
    scrollSubs,             \* editor id -> 'scroll-top-changed' handlers
    orphanTimers,           \* pending timers of debounced functions no longer subscribed
    eachEditorCallbacks,    \* callbacks registered with atom.workspace.eachEditor
    willBeRemovedHandlers,  \* handlers of 'editor:will-be-removed'
    cursorMovedHandlers,    \* handlers of 'cursor:moved'
    trace,                  \* history: what the last event handler did
    aggIn,                  \* AggSpec: the engine's error list handed to the aggregator
    aggOut                  \* AggSpec: what the aggregator made of it

vars == <<pc, editors, active, grammar, cursorRow, validateOnlyOnSave,
          markersByEditorId, errorsByEditorId, statusBar, hostMarkers, tooltips,
          bufferSubs, scrollSubs, orphanTimers, eachEditorCallbacks,
          willBeRemovedHandlers, cursorMovedHandlers, trace, aggIn, aggOut>>

-----------------------------------------------------------------------------
(* Bounds and value sets                                                   *)

EditorIds == {1, 2}
NoEditor == 0

MaxRegistrations == 3       \* cap on the number of registerEvents() runs
MaxCursorRow == 2           \* cursor rows 0..MaxCursorRow
MaxPending == 2             \* cap on the debounce timers pending at once
AggMaxLine == 3             \* AggSpec: lines 0..AggMaxLine
AggMaxChar == 2             \* AggSpec: characters 1..AggMaxChar
AggMaxLen == 3              \* AggSpec: engine lists of at most AggMaxLen entries

DebounceBuffer == 50
DebounceScroll == 200

Grammars == {"JavaScript", "JavaScript (JSX)", "CoffeeScript"}
SupportedGrammars == {"JavaScript", "JavaScript (JSX)"}

CursorRows == 0..MaxCursorRow

\* a JSHint error object, and the `null` the errors array sometimes contains
Diag(l, c, r) == [line |-> l, character |-> c, reason |-> r]
Null == [isNull |-> TRUE]

\* an object without keys
EmptyObj == [k \in {} |-> 0]

Put(f, k, v) == [x \in DOMAIN f \cup {k} |-> IF x = k THEN v ELSE f[x]]
DropKey(f, k) == [x \in DOMAIN f \ {k} |-> f[x]]

\* The outcomes of one run of loadConfig + linter in the main specification:
\* either of the two throws, or linter.errors holds one of these lists.
ErrorLists ==
    { << >>,
      << Diag(0, 1, "cfg"), Diag(1, 1, "b") >>,
      << Diag(3, 2, "c"), Null, Diag(3, 1, "d"), Diag(1, 1, "b") >> }

Results(lists) ==
    { [throws |-> TRUE, errors |-> << >>] }
    \cup { [throws |-> FALSE, errors |-> l] : l \in lists }

\* What the host and the engine may do in a specification: the results of
\* a lint run, the cursor rows and the grammars of an editor that gets
\* the focus.
LintEnv ==
    [ results |-> Results(ErrorLists), rows |-> CursorRows,
      grammars |-> Grammars ]

WireEnv ==
    [ results |-> Results({ << >>, << Diag(2, 1, "a") >> }), rows |-> {0},
      grammars |-> {"JavaScript", "CoffeeScript"} ]

-----------------------------------------------------------------------------
(* JavaScript values where the code depends on their type                  *)

\* a number, and the string lodash's _.keys returns for a property name
JsNumber(n) == [type |-> "number", value |-> n]
JsString(n) == [type |-> "string", value |-> n]

\* _.keys(obj): the property names, which are strings
Keys(obj) == { JsString(r) : r \in DOMAIN obj }

\* _.contains(array, target): lodash's indexOf compares with ===
ContainsAlways(list, target) == TRUE
Contains(list, target) == \E i \in 1..Len(list) : list[i] = target

\* obj[key]: a number and its decimal string name the same property
PropertyKey(key) == key.value

-----------------------------------------------------------------------------
(* Aggregation of same-line errors (lint, lines 143-165)                   *)

\* _.compact(linter.errors): drop the falsy entries
CompactErrors(errors) == SelectSeq(errors, LAMBDA el : el # Null)

\* _.sortBy(group, el.character): a stable sort by ascending character
RECURSIVE InsertByCharacter(_, _)
InsertByCharacter(sorted, el) ==
    IF sorted = << >> THEN << el >>
    ELSE IF Head(sorted).character <= el.character
         THEN << Head(sorted) >> \o InsertByCharacter(Tail(sorted), el)
         ELSE << el >> \o sorted

RECURSIVE SortByCharacter(_)
SortByUnsorted(group) == group
SortByCharacter(group) ==
    IF group = << >> THEN << >>
    ELSE InsertByCharacter(SortByCharacter(SubSeq(group, 1, Len(group) - 1)),
                           group[Len(group)])

\* the _.each over errors that fills the sparse array `ret`, indexed by line
RECURSIVE AggregateFrom(_, _, _)
AggregateFrom(errors, i, ret) ==
    IF i > Len(errors) THEN ret
    ELSE LET el == errors[i]
             l  == el.line
         IN  AggregateFrom(errors, i + 1,
                 IF l \in DOMAIN ret
                 THEN [ret EXCEPT ![l] = SortByCharacter(Append(ret[l], el))]
                 ELSE Put(ret, l, << el >>))

Aggregate(errors) == AggregateFrom(errors, 1, EmptyObj)

\* _.compact(ret): the groups of a sparse array, by ascending index
RECURSIVE CompactFrom(_, _)
CompactFrom(ret, idxs) ==
    IF idxs = {} THEN << >>
    ELSE LET lo == CHOOSE i \in idxs : \A j \in idxs : i <= j
         IN  << ret[lo] >> \o CompactFrom(ret, idxs \ {lo})

Compact(ret) == CompactFrom(ret, DOMAIN ret)

\* getRowForError (lines 83-87): `line: 0` is a config error, shown on row 0
GetRowNoDefault(error) == error[1].line - 1
getRowForError(error) ==
    LET line == IF error[1].line # 0 THEN error[1].line ELSE 1
    IN  line - 1

\* getReasonsForError (lines 104-108): "<character>: <reason>" per error
getReasonsForError(error) ==
    [i \in 1..Len(error) |-> <<error[i].character, error[i].reason>>]

-----------------------------------------------------------------------------
(* The state an event handler works on: a record P of the variables, with  *)
(* what the handler has done so far.  Every operator below takes the       *)
(* record and returns the changed record.                                  *)

\* history of one event handler
NewTrace(op) ==
    [ op |-> op,            \* the event handled
      pass |-> "none",      \* its last lint(): "noop", "threw", "crashed", "done"
      repeat |-> FALSE,     \* that lint() aggregated what was stored before
      replaced |-> FALSE,   \* that lint() found an error state and left another
      errors |-> << >>,     \* linter.errors of that lint(), if it got that far
      churn |-> 0,          \* markers a repeat pass destroyed and created
      statusbarCalls |-> 0, \* updateStatusbar() invocations
      teardownCalls |-> 0,  \* runs of the 'editor:will-be-removed' handler
      removed |-> 0,        \* map entries those runs deleted
      armed |-> 0,          \* debounced lint functions the event called
      source |-> NoEditor ] \* the editor whose debounce timer ran the lint()

Start(op) ==
    [ editors |-> editors, active |-> active, grammar |-> grammar,
      cursorRow |-> cursorRow, validateOnlyOnSave |-> validateOnlyOnSave,
      markersByEditorId |-> markersByEditorId,
      errorsByEditorId |-> errorsByEditorId,
      statusBar |-> statusBar, hostMarkers |-> hostMarkers,
      tooltips |-> tooltips, bufferSubs |-> bufferSubs,
      scrollSubs |-> scrollSubs, orphanTimers |-> orphanTimers,
      eachEditorCallbacks |-> eachEditorCallbacks,
      willBeRemovedHandlers |-> willBeRemovedHandlers,
      cursorMovedHandlers |-> cursorMovedHandlers,
      trace |-> NewTrace(op),
      threw |-> FALSE,      \* an exception is leaving the handler
      created |-> 0,        \* markers the current lint() created
      destroyed |-> 0 ]     \* markers the current lint() destroyed

\* the marker the host makes for a row of an editor; `undefined`
Marker(e, row) == [editor |-> e, row |-> row]
NoMarker == [editor |-> NoEditor, row |-> 0]

-----------------------------------------------------------------------------
(* Marker store (lines 14-63)                                              *)

getMarkersForEditor(P) ==
    IF P.active # NoEditor /\ P.active \in DOMAIN P.markersByEditorId
    THEN P.markersByEditorId[P.active]
    ELSE EmptyObj

\* marker.destroy(): the host drops the marker; its 'destroyed' event runs
\* the listener addReasons attached, which destroys the gutter row's tooltip
MarkerDestroy(P, m) ==
    LET at == <<m.editor, m.row>>
    IN  [P EXCEPT !.hostMarkers = IF @[at] = 1 THEN DropKey(@, at)
                                  ELSE [@ EXCEPT ![at] = @ - 1],
                  !.tooltips = DropKey(@, at),
                  !.destroyed = @ + 1]

destroyMarkerAtRow(P, key) ==
    LET row == PropertyKey(key)
    IN  IF /\ P.active \in DOMAIN P.markersByEditorId
           /\ row \in DOMAIN P.markersByEditorId[P.active]
        THEN LET P1 == MarkerDestroy(P, P.markersByEditorId[P.active][row])
             IN  [P1 EXCEPT !.markersByEditorId[P.active] = DropKey(@, row)]
        ELSE P

saveMarker(P, marker, row) ==
    LET own == IF P.active \in DOMAIN P.markersByEditorId
               THEN P.markersByEditorId[P.active]
               ELSE EmptyObj
    IN  [P EXCEPT !.markersByEditorId = Put(@, P.active, Put(own, row, marker))]

getMarkerAtRow(P, row) ==
    IF P.active \notin DOMAIN P.markersByEditorId THEN NoMarker
    ELSE IF row \in DOMAIN P.markersByEditorId[P.active]
         THEN P.markersByEditorId[P.active][row]
         ELSE NoMarker

RECURSIVE DestroyEach(_, _)
DestroyEach(P, keys) ==
    IF keys = {} THEN P
    ELSE LET key == CHOOSE k \in keys : TRUE
         IN  DestroyEach(destroyMarkerAtRow(P, key), keys \ {key})

\* clearOldMarkers (lines 24-35): `rows` holds numbers, _.keys yields strings
clearOldMarkersSkip(P, errors) == P
clearOldMarkers(P, errors) ==
    LET rows == [i \in 1..Len(errors) |-> JsNumber(getRowForError(errors[i]))]
        oldMarkers == getMarkersForEditor(P)
    IN  DestroyEach(P, { row \in Keys(oldMarkers) : ~Contains(rows, row) })

-----------------------------------------------------------------------------
(* Presentation (lines 65-122)                                             *)

\* a faulty variant of updateStatusbar: the cursor row taken for the line
updateStatusbarRowAsLine(P) ==
    LET P1 == [P EXCEPT !.statusBar = << >>, !.trace.statusbarCalls = @ + 1]
    IN  IF P.active = NoEditor \/ P.active \notin DOMAIN P.errorsByEditorId
        THEN P1
        ELSE LET arr == P.errorsByEditorId[P.active]
                 line == P.cursorRow
                 groups == Compact(arr)
             IN  IF line \in DOMAIN arr
                 THEN [P1 EXCEPT !.statusBar = Append(@, arr[line][1])]
                 ELSE [P1 EXCEPT !.statusBar = Append(@, groups[1][1])]

\* a faulty variant of updateStatusbar: the previous element is left in place
updateStatusbarNoRemove(P) ==
    LET P1 == [P EXCEPT !.trace.statusbarCalls = @ + 1]
    IN  IF P.active = NoEditor \/ P.active \notin DOMAIN P.errorsByEditorId
        THEN P1
        ELSE LET arr == P.errorsByEditorId[P.active]
                 line == P.cursorRow + 1
                 groups == Compact(arr)
             IN  IF line \in DOMAIN arr
                 THEN [P1 EXCEPT !.statusBar = Append(@, arr[line][1])]
                 ELSE [P1 EXCEPT !.statusBar = Append(@, groups[1][1])]

\* updateStatusbar (lines 65-81); the status bar package is present
updateStatusbar(P) ==
    LET P1 == [P EXCEPT !.statusBar = << >>, !.trace.statusbarCalls = @ + 1]
    IN  IF P.active = NoEditor \/ P.active \notin DOMAIN P.errorsByEditorId
        THEN P1
        ELSE LET arr == P.errorsByEditorId[P.active]
                 line == P.cursorRow + 1
                 groups == Compact(arr)
             IN  IF line \in DOMAIN arr
                 THEN [P1 EXCEPT !.statusBar = Append(@, arr[line][1])]
                 ELSE IF groups = << >>
                      THEN [P1 EXCEPT !.threw = TRUE, !.trace.pass = "crashed"]
                      ELSE [P1 EXCEPT !.statusBar = Append(@, groups[1][1])]

\* addReasons (lines 110-122): replace the tooltip of the gutter row
addReasons(P, marker, error) ==
    LET row == getRowForError(error)
    IN  [P EXCEPT !.tooltips = Put(@, <<P.active, row>>, getReasonsForError(error))]

\* editor.markBufferRange (line 97): the host makes a new marker on the row
MarkBufferRange(P, row) ==
    LET at == <<P.active, row>>
    IN  [P EXCEPT !.hostMarkers = IF at \in DOMAIN @
                                  THEN [@ EXCEPT ![at] = @ + 1]
                                  ELSE Put(@, at, 1),
                  !.created = @ + 1]

\* displayError (lines 89-102)
displayError(P, error) ==
    LET row == getRowForError(error)
    IN  IF getMarkerAtRow(P, row) # NoMarker THEN P
        ELSE LET marker == Marker(P.active, row)
             IN  addReasons(saveMarker(MarkBufferRange(P, row), marker, row),
                            marker, error)

RECURSIVE DisplayEach(_, _, _)
DisplayEach(P, errors, i) ==
    IF i > Len(errors) THEN P
    ELSE DisplayEach(displayError(P, errors[i]), errors, i + 1)

\* displayErrors (lines 170-174)
displayErrors(P, errors) ==
    LET P1 == updateStatusbar(clearOldMarkers(P, errors))
    IN  IF P1.threw THEN P1 ELSE DisplayEach(P1, errors, 1)

removeMarkersKeep(P, id) == P
removeMarkersForEditorId(P, id) ==
    IF id \in DOMAIN P.markersByEditorId
    THEN [P EXCEPT !.markersByEditorId = DropKey(@, id)]
    ELSE P

removeErrorsAll(P, id) == [P EXCEPT !.errorsByEditorId = EmptyObj]
removeErrorsForEditorId(P, id) ==
    IF id \in DOMAIN P.errorsByEditorId
    THEN [P EXCEPT !.errorsByEditorId = DropKey(@, id)]
    ELSE P

-----------------------------------------------------------------------------
(* The lint pass (lines 124-168).  `res` is what loadConfig and the        *)
(* selected linter (jshint or jsxhint) do when this pass calls them.       *)

StartPass(P) ==
    [P EXCEPT !.trace.pass = "noop", !.trace.repeat = FALSE,
              !.trace.replaced = FALSE, !.trace.errors = << >>,
              !.trace.churn = 0, !.created = 0, !.destroyed = 0]

Throw(P) == [P EXCEPT !.threw = TRUE, !.trace.pass = "threw"]

EndPass(P) ==
    IF P.threw THEN P
    ELSE [P EXCEPT !.trace.pass = "done",
                   !.trace.churn = IF P.trace.repeat
                                   THEN P.created + P.destroyed ELSE 0]

\* a faulty variant of lines 141-167: the groups of this pass are merged
\* into the error state the editor had
LintBodyMerge(P, res) ==
    LET had == P.active \in DOMAIN P.errorsByEditorId
        old == IF had THEN P.errorsByEditorId[P.active] ELSE EmptyObj
        P1 == [P EXCEPT !.trace.errors = res.errors]
        errors == CompactErrors(res.errors)
    IN  IF Len(errors) > 0
        THEN LET ret == Aggregate(errors)
                 merged == [l \in DOMAIN old \cup DOMAIN ret |->
                               IF l \in DOMAIN ret THEN ret[l] ELSE old[l]]
                 P2 == [P1 EXCEPT
                          !.errorsByEditorId = Put(@, P.active, merged),
                          !.trace.replaced = had /\ old # merged]
             IN  EndPass(displayErrors(P2, Compact(merged)))
        ELSE EndPass(displayErrors(P1, Compact(old)))

\* a faulty variant of lines 141-167: the array is stored without the test
\* of line 146
LintBodyStoreEmpty(P, res) ==
    LET had == P.active \in DOMAIN P.errorsByEditorId
        P1 == [removeErrorsForEditorId(P, P.active) EXCEPT
                  !.trace.errors = res.errors]
        ret == Aggregate(CompactErrors(res.errors))
        same == had /\ P.errorsByEditorId[P.active] = ret
        P2 == [P1 EXCEPT !.errorsByEditorId = Put(@, P.active, ret),
                         !.trace.repeat = same,
                         !.trace.replaced = had /\ ~same]
    IN  EndPass(displayErrors(P2, Compact(ret)))

\* lines 141-167
LintBody(P, res) ==
    LET had == P.active \in DOMAIN P.errorsByEditorId
        P1 == [removeErrorsForEditorId(P, P.active) EXCEPT
                  !.trace.errors = res.errors]
        errors == CompactErrors(res.errors)
    IN  IF Len(errors) > 0
        THEN LET ret == Aggregate(errors)
                 same == had /\ P.errorsByEditorId[P.active] = ret
                 P2 == [P1 EXCEPT
                          !.errorsByEditorId = Put(@, P.active, ret),
                          !.trace.repeat = same,
                          !.trace.replaced = had /\ ~same]
             IN  EndPass(displayErrors(P2, Compact(ret)))
        ELSE EndPass(displayErrors([P1 EXCEPT !.trace.replaced = had], errors))

\* faulty variants of lint, for the sanity checks of the properties: one
\* without the grammar check, one that drops the error state before the
\* linter has run
LintAnyGrammar(P, res) ==
    LET P0 == StartPass(P)
    IN  IF P.active = NoEditor THEN P0
        ELSE IF res.throws THEN Throw(P0)
        ELSE LintBody(P0, res)

LintRemoveFirst(P, res) ==
    LET P0 == StartPass(P)
    IN  IF P.active = NoEditor THEN P0
        ELSE IF P.grammar \notin SupportedGrammars THEN P0
        ELSE IF res.throws THEN Throw(removeErrorsForEditorId(P0, P.active))
        ELSE LintBody(P0, res)

lint(P, res) ==
    LET P0 == StartPass(P)
    IN  IF P.active = NoEditor THEN P0
        ELSE IF P.grammar \notin SupportedGrammars THEN P0
        ELSE IF res.throws THEN Throw(P0)
        ELSE LintBody(P0, res)

-----------------------------------------------------------------------------
(* Event wiring (lines 188-229)                                            *)

\* _.debounce(lint, wait): a function with at most one pending timer
Debounced(wait) == [wait |-> wait, pending |-> FALSE]

\* an event calls a debounced function: its timer (re)starts
Call(fn) == [fn EXCEPT !.pending = TRUE]

\* the waits of the pending timers among debounced functions
PendingWaits(fns) == { fns[i].wait : i \in { j \in 1..Len(fns) : fns[j].pending } }

SubFns(subs) == [i \in 1..Len(subs) |-> subs[i].fn]

\* editor.off('scroll-top-changed'): the handlers go, their timers stay
ScrollOff(P, e) ==
    [P EXCEPT !.orphanTimers = @ \cup PendingWaits(P.scrollSubs[e]),
              !.scrollSubs[e] = << >>]

\* plugin.unsubscribe(buffer): the subscriptions go, their timers stay
Unsubscribe(P, e) ==
    [P EXCEPT !.orphanTimers = @ \cup PendingWaits(SubFns(P.bufferSubs[e])),
              !.bufferSubs[e] = << >>]

\* the callback handed to atom.workspace.eachEditor (lines 191-206)
EditorCallback(P, e) ==
    LET P1 == Unsubscribe(ScrollOff(P, e), e)
        events == IF P.validateOnlyOnSave
                  THEN {"saved"}
                  ELSE {"saved", "contents-modified"}
        P2 == IF P.validateOnlyOnSave THEN P1
              ELSE [P1 EXCEPT !.scrollSubs[e] =
                                  Append(@, Debounced(DebounceScroll))]
    IN  [P2 EXCEPT !.bufferSubs[e] =
                       Append(@, [events |-> events,
                                  fn |-> Debounced(DebounceBuffer)])]

RECURSIVE EachEditor(_, _)
EachEditor(P, eds) ==
    IF eds = {} THEN P
    ELSE LET e == CHOOSE x \in eds : TRUE
         IN  EachEditor(EditorCallback(P, e), eds \ {e})

\* registerEvents (lines 188-218): an exception of lint() leaves it at once
registerEvents(P, res) ==
    LET P1 == lint(P, res)
    IN  IF P1.threw THEN P1
        ELSE [EachEditor(P1, P1.editors) EXCEPT
                 !.eachEditorCallbacks = @ + 1,
                 !.willBeRemovedHandlers = @ + 1,
                 !.cursorMovedHandlers = @ + 1]

\* the 'editor:will-be-removed' handler (lines 208-213)
WillBeRemoved(P, e) ==
    LET P1 == removeMarkersForEditorId(removeErrorsForEditorId(P, e), e)
        had(obj) == IF e \in DOMAIN obj THEN 1 ELSE 0
    IN  [P1 EXCEPT
            !.trace.teardownCalls = @ + 1,
            !.trace.removed =
                @ + (had(P.errorsByEditorId) - had(P1.errorsByEditorId))
                  + (had(P.markersByEditorId) - had(P1.markersByEditorId))]

\* the n handlers registered for an event (or the n eachEditor callbacks)
\* run one after the other
RECURSIVE RunEditorCallbacks(_, _, _)
RunEditorCallbacks(P, e, n) ==
    IF n = 0 THEN P ELSE RunEditorCallbacks(EditorCallback(P, e), e, n - 1)

RECURSIVE RunWillBeRemoved(_, _, _)
RunWillBeRemoved(P, e, n) ==
    IF n = 0 THEN P ELSE RunWillBeRemoved(WillBeRemoved(P, e), e, n - 1)

\* a faulty variant of the 'cursor:moved' handler: it lints as well
RunCursorMovedLint(P, n) ==
    IF n = 0 THEN P
    ELSE lint(updateStatusbar(P), [throws |-> FALSE, errors |-> << >>])

RECURSIVE RunCursorMoved(_, _)
RunCursorMoved(P, n) ==
    IF n = 0 THEN P ELSE RunCursorMoved(updateStatusbar(P), n - 1)

-----------------------------------------------------------------------------
(* Specification                                                           *)

AggNone == [done |-> FALSE]

Init ==
    /\ pc = "loaded"
    /\ editors = {}
    /\ active = NoEditor
    /\ grammar = "JavaScript"
    /\ cursorRow = 0
    /\ validateOnlyOnSave \in BOOLEAN
    /\ markersByEditorId = EmptyObj
    /\ errorsByEditorId = EmptyObj
    /\ statusBar = << >>
    /\ hostMarkers = EmptyObj
    /\ tooltips = EmptyObj
    /\ bufferSubs = [e \in EditorIds |-> << >>]
    /\ scrollSubs = [e \in EditorIds |-> << >>]
    /\ orphanTimers = {}
    /\ eachEditorCallbacks = 0
    /\ willBeRemovedHandlers = 0
    /\ cursorMovedHandlers = 0
    /\ trace = NewTrace("load")
    /\ aggIn = << >>
    /\ aggOut = AggNone

\* the variables take the values of the record a handler returns
Apply(P) ==
    /\ markersByEditorId' = P.markersByEditorId
    /\ errorsByEditorId' = P.errorsByEditorId
    /\ statusBar' = P.statusBar
    /\ hostMarkers' = P.hostMarkers
    /\ tooltips' = P.tooltips
    /\ bufferSubs' = P.bufferSubs
    /\ scrollSubs' = P.scrollSubs
    /\ orphanTimers' = P.orphanTimers
    /\ eachEditorCallbacks' = P.eachEditorCallbacks
    /\ willBeRemovedHandlers' = P.willBeRemovedHandlers
    /\ cursorMovedHandlers' = P.cursorMovedHandlers
    /\ trace' = P.trace

\* editor a (or no editor) gets the focus; the package reads the cursor and
\* the grammar of the active editor only, and both change while an editor
\* is not active, so they are chosen when it gets the focus
Focus(a, env) ==
    /\ active' = a
    /\ IF a = NoEditor
       THEN cursorRow' = 0 /\ grammar' = "JavaScript"
       ELSE \E r \in env.rows, g \in env.grammars :
                cursorRow' = r /\ grammar' = g

\* plugin.activate (lines 225-229).  atom.config.observe calls its callback
\* once at once with the current value, so registerEvents runs twice; an
\* exception of the first run fails the activation.
Activate(env) ==
    /\ pc = "loaded"
    /\ \E res \in env.results :
         LET P1 == registerEvents(Start("activate"), res)
         IN  IF P1.threw
             THEN pc' = "failed" /\ Apply(P1)
             ELSE pc' = "active" /\ Apply(registerEvents(P1, res))
    /\ UNCHANGED <<editors, active, grammar, cursorRow, validateOnlyOnSave,
                   aggIn, aggOut>>

\* the observer of 'jshint.validateOnlyOnSave' (line 227)
ConfigChanged(env) ==
    /\ pc = "active"
    /\ cursorMovedHandlers < MaxRegistrations
    /\ validateOnlyOnSave' = ~validateOnlyOnSave
    /\ \E res \in env.results :
         Apply(registerEvents(
                   [Start("config") EXCEPT
                       !.validateOnlyOnSave = ~validateOnlyOnSave], res))
    /\ UNCHANGED <<pc, editors, active, grammar, cursorRow, aggIn, aggOut>>

\* the command 'jshint:lint' (line 228)
LintCommand(env) ==
    /\ pc = "active"
    /\ \E res \in env.results : Apply(lint(Start("lint"), res))
    /\ UNCHANGED <<pc, editors, active, grammar, cursorRow,
                   validateOnlyOnSave, aggIn, aggOut>>

\* an editor opens: every eachEditor callback runs for it
OpenEditor(e, env) ==
    /\ pc # "failed"
    /\ e \notin editors
    /\ editors' = editors \cup {e}
    /\ \/ UNCHANGED <<active, cursorRow, grammar>>
       \/ Focus(e, env)
    /\ Apply(RunEditorCallbacks(Start("host"), e, eachEditorCallbacks))
    /\ UNCHANGED <<pc, validateOnlyOnSave, aggIn, aggOut>>

\* an editor closes: the handlers run, then the host destroys the editor
\* with its markers, tooltips and buffer
CloseEditor(e, env) ==
    /\ pc # "failed"
    /\ e \in editors
    /\ editors' = editors \ {e}
    /\ IF active = e
       THEN \E a \in (editors \ {e}) \cup {NoEditor} : Focus(a, env)
       ELSE UNCHANGED <<active, cursorRow, grammar>>
    /\ LET P1 == RunWillBeRemoved(Start("close"), e, willBeRemovedHandlers)
           P2 == Unsubscribe(ScrollOff(P1, e), e)
       IN  Apply([P2 EXCEPT
                    !.hostMarkers = [k \in { x \in DOMAIN @ : x[1] # e } |-> @[k]],
                    !.tooltips = [k \in { x \in DOMAIN @ : x[1] # e } |-> @[k]]])
    /\ UNCHANGED <<pc, validateOnlyOnSave, aggIn, aggOut>>

\* the user activates another pane item
SwitchActive(a, env) ==
    /\ pc # "failed"
    /\ a \in editors \cup {NoEditor}
    /\ a # active
    /\ Focus(a, env)
    /\ trace' = NewTrace("host")
    /\ UNCHANGED <<pc, editors, validateOnlyOnSave, markersByEditorId,
                   errorsByEditorId, statusBar, hostMarkers, tooltips,
                   bufferSubs, scrollSubs, orphanTimers, eachEditorCallbacks,
                   willBeRemovedHandlers, cursorMovedHandlers, aggIn, aggOut>>

\* the grammar of the active editor changes
SetGrammar(g) ==
    /\ pc # "failed"
    /\ active # NoEditor
    /\ g # grammar
    /\ grammar' = g
    /\ trace' = NewTrace("host")
    /\ UNCHANGED <<pc, editors, active, cursorRow, validateOnlyOnSave,
                   markersByEditorId, errorsByEditorId, statusBar, hostMarkers,
                   tooltips, bufferSubs, scrollSubs, orphanTimers,
                   eachEditorCallbacks, willBeRemovedHandlers,
                   cursorMovedHandlers, aggIn, aggOut>>

\* 'cursor:moved' (lines 215-217): every registered handler runs
CursorMoved(env) ==
    /\ pc # "failed"
    /\ editors # {}
    /\ \E r \in env.rows :
         /\ cursorRow' = IF active = NoEditor THEN cursorRow ELSE r
         /\ LET P0 == [Start("cursor") EXCEPT !.cursorRow = cursorRow']
            IN  Apply(RunCursorMoved(P0, cursorMovedHandlers))
    /\ UNCHANGED <<pc, editors, active, grammar, validateOnlyOnSave,
                   aggIn, aggOut>>

\* the number of pending timers
Pending(fns) == Cardinality({ i \in 1..Len(fns) : fns[i].pending })

RECURSIVE PendingOf(_)
PendingOf(eds) ==
    IF eds = {} THEN 0
    ELSE LET e == CHOOSE x \in eds : TRUE
         IN  Pending(SubFns(bufferSubs[e])) + Pending(scrollSubs[e])
                 + PendingOf(eds \ {e})

TotalPending == Cardinality(orphanTimers) + PendingOf(EditorIds)

\* a buffer event reaches the subscriptions that listen to it
Dispatch(subs, ev) ==
    [i \in 1..Len(subs) |->
        IF ev \in subs[i].events
        THEN [subs[i] EXCEPT !.fn = Call(@)]
        ELSE subs[i]]

Listening(subs, ev) == Cardinality({ i \in 1..Len(subs) : ev \in subs[i].events })

BufferEvent(e, ev) ==
    /\ pc # "failed"
    /\ e \in editors
    /\ bufferSubs' = [bufferSubs EXCEPT ![e] = Dispatch(@, ev)]
    /\ TotalPending + Pending(SubFns(bufferSubs'[e]))
           - Pending(SubFns(bufferSubs[e])) <= MaxPending
    /\ trace' = [NewTrace(ev) EXCEPT !.armed = Listening(bufferSubs[e], ev)]
    /\ UNCHANGED <<pc, editors, active, grammar, cursorRow, validateOnlyOnSave,
                   markersByEditorId, errorsByEditorId, statusBar, hostMarkers,
                   tooltips, scrollSubs, orphanTimers, eachEditorCallbacks,
                   willBeRemovedHandlers, cursorMovedHandlers, aggIn, aggOut>>

\* the buffer of an editor emits 'contents-modified'
ContentsModified(e) == BufferEvent(e, "contents-modified")

\* the buffer of an editor emits 'saved'
Saved(e) == BufferEvent(e, "saved")

\* an editor emits 'scroll-top-changed'
ScrollTopChanged(e) ==
    /\ pc # "failed"
    /\ e \in editors
    /\ scrollSubs' = [scrollSubs EXCEPT
                         ![e] = [i \in 1..Len(@) |-> Call(@[i])]]
    /\ TotalPending + Pending(scrollSubs'[e]) - Pending(scrollSubs[e])
           <= MaxPending
    /\ trace' = [NewTrace("scroll-top-changed") EXCEPT
                    !.armed = Len(scrollSubs[e])]
    /\ UNCHANGED <<pc, editors, active, grammar, cursorRow, validateOnlyOnSave,
                   markersByEditorId, errorsByEditorId, statusBar, hostMarkers,
                   tooltips, bufferSubs, orphanTimers, eachEditorCallbacks,
                   willBeRemovedHandlers, cursorMovedHandlers, aggIn, aggOut>>

\* the timer of a subscribed debounced function fires: lint() runs
BufferTimer(e, env) ==
    /\ \E i \in 1..Len(bufferSubs[e]) :
         /\ bufferSubs[e][i].fn.pending
         /\ \E res \in env.results :
              Apply(lint([Start("lint") EXCEPT
                            !.bufferSubs[e][i].fn.pending = FALSE,
                            !.trace.source = e], res))
    /\ UNCHANGED <<pc, editors, active, grammar, cursorRow,
                   validateOnlyOnSave, aggIn, aggOut>>

ScrollTimer(e, env) ==
    /\ \E i \in 1..Len(scrollSubs[e]) :
         /\ scrollSubs[e][i].pending
         /\ \E res \in env.results :
              Apply(lint([Start("lint") EXCEPT
                            !.scrollSubs[e][i].pending = FALSE,
                            !.trace.source = e], res))
    /\ UNCHANGED <<pc, editors, active, grammar, cursorRow,
                   validateOnlyOnSave, aggIn, aggOut>>

\* the timer of a debounced function that lost its subscription fires
OrphanTimer(w, env) ==
    /\ w \in orphanTimers
    /\ \E res \in env.results :
         Apply(lint([Start("lint") EXCEPT !.orphanTimers = @ \ {w}], res))
    /\ UNCHANGED <<pc, editors, active, grammar, cursorRow,
                   validateOnlyOnSave, aggIn, aggOut>>

\* Spec: the lint passes and the editors.  Every debounce timer runs the
\* same lint() as the command, so the command stands for them here.
Next ==
    \/ Activate(LintEnv)
    \/ ConfigChanged(LintEnv)
    \/ LintCommand(LintEnv)
    \/ \E e \in EditorIds : OpenEditor(e, LintEnv)
    \/ \E e \in EditorIds : CloseEditor(e, LintEnv)
    \/ \E a \in EditorIds \cup {NoEditor} : SwitchActive(a, LintEnv)
    \/ \E g \in Grammars : SetGrammar(g)
    \/ CursorMoved(LintEnv)

Spec == Init /\ [][Next]_vars

\* WireSpec: the same with the editor events and the debounce timers, over
\* fewer lint results, cursor rows and grammars.
WireNext ==
    \/ Activate(WireEnv)
    \/ ConfigChanged(WireEnv)
    \/ LintCommand(WireEnv)
    \/ \E e \in EditorIds : OpenEditor(e, WireEnv)
    \/ \E e \in EditorIds : CloseEditor(e, WireEnv)
    \/ \E a \in EditorIds \cup {NoEditor} : SwitchActive(a, WireEnv)
    \/ \E g \in WireEnv.grammars : SetGrammar(g)
    \/ CursorMoved(WireEnv)
    \/ \E e \in EditorIds : ContentsModified(e)
    \/ \E e \in EditorIds : Saved(e)
    \/ \E e \in EditorIds : ScrollTopChanged(e)
    \/ \E e \in EditorIds : BufferTimer(e, WireEnv)
    \/ \E e \in EditorIds : ScrollTimer(e, WireEnv)
    \/ \E w \in {DebounceBuffer, DebounceScroll} : OrphanTimer(w, WireEnv)

WireSpec == Init /\ [][WireNext]_vars

\* AggSpec: the aggregation of lint (lines 143-165) and the rows of its
\* groups, for every list of at most AggMaxLen entries the engine may leave
\* in linter.errors.
AggDiags ==
    { Diag(l, c, "r") : l \in 0..AggMaxLine, c \in 1..AggMaxChar } \cup {Null}

AggInputs == UNION { [1..n -> AggDiags] : n \in 0..AggMaxLen }

AggInit ==
    /\ pc = "loaded"
    /\ editors = {}
    /\ active = NoEditor
    /\ grammar = "JavaScript"
    /\ cursorRow = 0
    /\ validateOnlyOnSave = FALSE
    /\ markersByEditorId = EmptyObj
    /\ errorsByEditorId = EmptyObj
    /\ statusBar = << >>
    /\ hostMarkers = EmptyObj
    /\ tooltips = EmptyObj
    /\ bufferSubs = [e \in EditorIds |-> << >>]
    /\ scrollSubs = [e \in EditorIds |-> << >>]
    /\ orphanTimers = {}
    /\ eachEditorCallbacks = 0
    /\ willBeRemovedHandlers = 0
    /\ cursorMovedHandlers = 0
    /\ trace = NewTrace("load")
    /\ aggIn \in AggInputs
    /\ aggOut = AggNone

\* lines 144-165 and the rows clearOldMarkers and displayError compute:
\* `stored` is what goes to errorsByEditorId, `shown` what goes to
\* displayErrors, `rows` the row of each group shown
AggregateStep ==
    /\ ~aggOut.done
    /\ LET errors == CompactErrors(aggIn)
           ret == IF Len(errors) > 0 THEN Aggregate(errors) ELSE EmptyObj
           shown == IF Len(errors) > 0 THEN Compact(ret) ELSE errors
       IN  aggOut' = [ done |-> TRUE, stored |-> ret, shown |-> shown,
                       rows |-> [i \in 1..Len(shown) |->
                                    getRowForError(shown[i])] ]
    /\ UNCHANGED <<pc, editors, active, grammar, cursorRow, validateOnlyOnSave,
                   markersByEditorId, errorsByEditorId, statusBar, hostMarkers,
                   tooltips, bufferSubs, scrollSubs, orphanTimers,
                   eachEditorCallbacks, willBeRemovedHandlers,
                   cursorMovedHandlers, trace, aggIn>>

AggNext == AggregateStep

AggSpec == AggInit /\ [][AggNext]_vars

-----------------------------------------------------------------------------
(* Properties                                                              *)

TypeOK ==
    /\ pc \in {"loaded", "active", "failed"}
    /\ editors \subseteq EditorIds
    /\ active \in editors \cup {NoEditor}
    /\ cursorRow \in CursorRows
    /\ grammar \in Grammars
    /\ DOMAIN markersByEditorId \subseteq EditorIds
    /\ DOMAIN errorsByEditorId \subseteq EditorIds
    /\ Len(statusBar) <= 1

\* the row the package shows a line on: line - 1, a config error on row 0
RowOfLine(l) == IF l = 0 THEN 0 ELSE l - 1

\* the rows with a diagnostic group of the editor's last lint pass
GroupRows(e) ==
    IF e \in DOMAIN errorsByEditorId
    THEN { RowOfLine(l) : l \in DOMAIN errorsByEditorId[e] }
    ELSE {}

\* the rows with a stored marker
MarkerRows(e) ==
    IF e \in DOMAIN markersByEditorId THEN DOMAIN markersByEditorId[e] ELSE {}

\* C1: for every editor the rows with a stored marker are the rows with a
\* diagnostic group of its most recent lint pass (so a subset of them in
\* every state, and equal after every pass), each stored marker is one live
\* marker of the host on that row, and the host has no other marker.
C1_MarkersMatchDiagnostics ==
    /\ \A e \in EditorIds :
         /\ MarkerRows(e) = GroupRows(e)
         /\ \A row \in MarkerRows(e) :
              /\ <<e, row>> \in DOMAIN hostMarkers
              /\ hostMarkers[<<e, row>>] = 1
              /\ markersByEditorId[e][row] = Marker(e, row)
    /\ \A at \in DOMAIN hostMarkers : at[2] \in MarkerRows(at[1])

\* a pass has left the active editor with markers on rows 0 and 2
C1_Witness ==
    /\ trace.pass = "done"
    /\ active # NoEditor
    /\ MarkerRows(active) = {0, 2}

\* C2: a lint pass that aggregates the diagnostics the editor already had
\* destroys no marker and creates none.
C2_RepeatPassKeepsMarkers ==
    (trace.pass = "done" /\ trace.repeat) => trace.churn = 0

\* C3: while validateOnlyOnSave is enabled, a 'contents-modified' or
\* 'scroll-top-changed' event calls no debounced lint function, so it
\* starts no timer and leads to no lint pass.
C3_OnlySaveTriggersLint ==
    (validateOnlyOnSave
        /\ trace.op \in {"contents-modified", "scroll-top-changed"})
    => trace.armed = 0

\* C4: once the package is active every workspace event has exactly one
\* handler: a cursor move recomputes the status bar once, an editor close
\* runs the teardown once.
C4_OneHandlerPerEvent ==
    pc = "active" =>
        /\ cursorMovedHandlers = 1
        /\ willBeRemovedHandlers = 1
        /\ trace.op = "cursor" => trace.statusbarCalls = 1
        /\ trace.op = "close" => trace.teardownCalls = 1

\* C5: an editor that is not open has no error state and no marker state,
\* whatever timers are pending, and an editor that opens (also under an id
\* used before) starts with neither.
C5_ClosedEmpty ==
    \A e \in EditorIds \ editors :
        e \notin DOMAIN errorsByEditorId /\ e \notin DOMAIN markersByEditorId

C5_OpenStartsEmpty ==
    \A e \in EditorIds :
        (e \notin editors /\ e \in editors') =>
            (e \notin DOMAIN errorsByEditorId' /\ e \notin DOMAIN markersByEditorId')

C5_TeardownOnClose == []C5_ClosedEmpty /\ [][C5_OpenStartsEmpty]_vars

\* an editor with error and marker state closes while a debounced lint is
\* pending
C5_Witness ==
    /\ trace.op = "close"
    /\ trace.removed = 2
    /\ TotalPending > 0

\* C6 as stated: every group is keyed to row line - 1, a config-level
\* group (line 0) to row -1, so groups of line 0 and line 1 never share a row.
C6_ConfigErrorOnRowMinusOne ==
    aggOut.done =>
        /\ \A i \in 1..Len(aggOut.shown) :
             aggOut.rows[i] = aggOut.shown[i][1].line - 1
        /\ \A i, j \in 1..Len(aggOut.shown) :
             (aggOut.shown[i][1].line = 0 /\ aggOut.shown[j][1].line = 1)
                 => aggOut.rows[i] # aggOut.rows[j]

\* C6 amended: every group of a line >= 1 is keyed to row line - 1 and a
\* config-level group (line 0) to row 0, the row of line 1; the two stay
\* separate groups of the error state.
C6_ConfigErrorOnRowZero ==
    aggOut.done =>
        /\ \A i \in 1..Len(aggOut.shown) :
             LET l == aggOut.shown[i][1].line
             IN  /\ l >= 1 => aggOut.rows[i] = l - 1
                 /\ l = 0 => aggOut.rows[i] = 0
        /\ \A i, j \in 1..Len(aggOut.shown) :
             (aggOut.shown[i][1].line = 0 /\ aggOut.shown[j][1].line = 1)
                 => (i # j /\ aggOut.rows[i] = aggOut.rows[j])

\* a list with a config-level error and an error on line 1 was aggregated
C6_Witness ==
    /\ aggOut.done
    /\ \E i, j \in 1..Len(aggOut.shown) :
         aggOut.shown[i][1].line = 0 /\ aggOut.shown[j][1].line = 1

\* the occurrences of d in a sequence
Count(seq, d) == Cardinality({ i \in 1..Len(seq) : seq[i] = d })

\* C7: the aggregated result has one group per distinct line of the
\* non-null diagnostics; a group holds exactly the diagnostics of its line,
\* by ascending character.
C7_AggregationGroupsAndSorts ==
    aggOut.done =>
        LET input == { aggIn[i] : i \in { j \in 1..Len(aggIn) : aggIn[j] # Null } }
            lines == { d.line : d \in input }
        IN  /\ DOMAIN aggOut.stored = lines
            /\ Len(aggOut.shown) = Cardinality(lines)
            /\ \A l \in lines :
                 LET group == aggOut.stored[l]
                 IN  /\ \A i \in 1..Len(group) : group[i].line = l
                     /\ \A i \in 1..(Len(group) - 1) :
                          group[i].character <= group[i + 1].character
                     /\ \A d \in input :
                          d.line = l => Count(group, d) = Count(aggIn, d)
                     /\ \E i \in 1..Len(aggOut.shown) : aggOut.shown[i] = group

\* a list with a null, two diagnostics of one line in descending character
\* order and a diagnostic of another line was aggregated
C7_Witness ==
    /\ aggOut.done
    /\ aggIn = << Diag(2, 2, "r"), Null, Diag(2, 1, "r") >> \o << Diag(1, 1, "r") >>
                   \/ aggIn = << Diag(2, 2, "r"), Diag(1, 1, "r"), Diag(2, 1, "r") >>
    /\ Len(aggOut.shown) = 2

\* what the claim has the status bar show for the active editor
StatusbarTargets ==
    IF active = NoEditor \/ active \notin DOMAIN errorsByEditorId THEN { << >> }
    ELSE LET arr == errorsByEditorId[active]
             atCursor == { l \in DOMAIN arr : RowOfLine(l) = cursorRow }
             lowest == { l \in DOMAIN arr :
                           \A k \in DOMAIN arr : RowOfLine(l) <= RowOfLine(k) }
         IN  IF DOMAIN arr = {} THEN { << >> }
             ELSE IF atCursor # {} THEN { << arr[l][1] >> : l \in atCursor }
             ELSE { << arr[l][1] >> : l \in lowest }

\* C8: after an event that recomputed the status bar it shows the first
\* diagnostic of a group on the cursor's row if the active editor has one,
\* else the first diagnostic of its group with the lowest row, and nothing
\* when the active editor has no diagnostics.
C8_StatusbarShowsCursorRowOrLowest ==
    trace.statusbarCalls > 0 => statusBar \in StatusbarTargets

\* groups on rows 0 and 2, the cursor moved to row 1: the first diagnostic
\* of row 0 is shown
C8_Witness ==
    /\ trace.op = "cursor"
    /\ trace.statusbarCalls > 0
    /\ cursorRow = 1
    /\ GroupRows(active) = {0, 2}
    /\ statusBar = << Diag(1, 1, "b") >>

\* C9: a lint pass in which loadConfig or the linter throws leaves the
\* error state, the marker state (stored and on screen) and the status bar
\* as they were.
C9_ThrowStep ==
    trace'.pass = "threw" =>
        UNCHANGED <<errorsByEditorId, markersByEditorId, statusBar,
                    hostMarkers, tooltips>>

C9_ThrowLeavesState == [][C9_ThrowStep]_vars

\* a pass threw for an editor that has an error state and a summary shown
C9_Witness ==
    /\ trace.pass = "threw"
    /\ active \in DOMAIN errorsByEditorId
    /\ statusBar # << >>

\* C10: a lint pass with no active editor, or with an active editor whose
\* grammar is neither 'JavaScript' nor 'JavaScript (JSX)', returns before
\* the engine is called and leaves the marker and error state as they were.
C10_UnsupportedStep ==
    (trace'.pass # "none" /\ (active = NoEditor \/ grammar \notin SupportedGrammars))
    => /\ trace'.pass = "noop"
       /\ UNCHANGED <<markersByEditorId, errorsByEditorId, hostMarkers>>

C10_UnsupportedIsNoop == [][C10_UnsupportedStep]_vars

\* a pass returned early for an editor with markers whose grammar is not
\* supported
C10_Witness ==
    /\ trace.pass = "noop"
    /\ active \in DOMAIN markersByEditorId
    /\ grammar = "CoffeeScript"

\* the live markers the host has on the rows of an editor
HostMarkerRows(e) == { at[2] : at \in { x \in DOMAIN hostMarkers : x[1] = e } }

\* C11: after a completed lint pass in which the engine reported no
\* diagnostic (its list is empty once the nulls are dropped) the active
\* editor has no stored
\* marker and no live marker, it has no error state, and the status bar shows
\* no summary.
C11_EmptyPassClears ==
    (trace.pass = "done" /\ CompactErrors(trace.errors) = << >>) =>
        /\ MarkerRows(active) = {}
        /\ HostMarkerRows(active) = {}
        /\ active \notin DOMAIN errorsByEditorId
        /\ statusBar = << >>

\* a pass without diagnostics ran on an editor that had an error state (and
\* so markers) from an earlier pass
C11_Witness ==
    /\ trace.pass = "done"
    /\ CompactErrors(trace.errors) = << >>
    /\ trace.replaced
    /\ trace.op = "lint"

\* C12: in every reachable state the status bar holds at most one
\* '#jshint-statusbar' element, whatever cursor moves, lint passes, editor
\* switches, openings and closings led to the state.
C12_AtMostOneSummary == Len(statusBar) <= 1

\* one cursor move ran updateStatusbar more than once with a diagnostic to
\* show: each run after the first found the element of the run before it
C12_Witness ==
    /\ trace.op = "cursor"
    /\ trace.statusbarCalls >= 2
    /\ Len(statusBar) = 1

\* C13: a 'cursor:moved' event runs updateStatusbar only: no lint() runs, no
\* debounced lint is called, and the error state, the marker state and the
\* markers and tooltips on screen of every editor stay as they were.
C13_CursorStep ==
    trace'.op = "cursor" =>
        /\ trace'.pass = "none"
        /\ trace'.armed = 0
        /\ trace'.statusbarCalls = cursorMovedHandlers
        /\ UNCHANGED <<errorsByEditorId, markersByEditorId, hostMarkers,
                       tooltips, bufferSubs, scrollSubs, orphanTimers>>

C13_CursorMoveOnlyUpdatesStatusbar == [][C13_CursorStep]_vars

\* the cursor moved in an editor with markers and the summary was recomputed
C13_Witness ==
    /\ trace.op = "cursor"
    /\ trace.statusbarCalls > 0
    /\ MarkerRows(active) # {}
    /\ statusBar # << >>

\* the tooltip bound to the gutter row of an editor, if there is one
TooltipAt(e, row) ==
    IF <<e, row>> \in DOMAIN tooltips THEN tooltips[<<e, row>>] ELSE << >>

\* C14: after every completed lint pass each diagnostic group of the active
\* editor has, on its row, a tooltip that lists the "<character>: <reason>"
\* of exactly the diagnostics of the group, in the order of the group.
C14_TooltipListsRowGroup ==
    (trace.pass = "done" /\ active \in DOMAIN errorsByEditorId) =>
        \A l \in DOMAIN errorsByEditorId[active] :
            TooltipAt(active, RowOfLine(l))
                = getReasonsForError(errorsByEditorId[active][l])

\* C15: once the package is active every open editor has exactly one
\* subscription on its buffer, and one 'scroll-top-changed' handler in
\* continuous mode and none in save-only mode, after any registerEvents
\* runs, option toggles and editor openings.
C15_OneSubscriptionPerEditor ==
    pc = "active" =>
        \A e \in editors :
            /\ Len(bufferSubs[e]) = 1
            /\ Len(scrollSubs[e]) = IF validateOnlyOnSave THEN 0 ELSE 1

\* C16: in continuous mode every 'contents-modified' or 'saved' event of an
\* open editor calls exactly one debounced lint function, whether or not its
\* timer is already running, so that one timer is pending after the event
\* and the events of a burst are followed by one lint pass, after the last
\* of them.
C16_BurstCollapsesToOnePass ==
    (pc = "active" /\ ~validateOnlyOnSave
        /\ trace.op \in {"contents-modified", "saved"})
    => (trace.armed = 1 /\ TotalPending >= 1)

\* C17: after every completed lint pass the error state of the active
\* editor holds exactly the diagnostics the engine reported in this pass, one
\* group per line, and no group of an earlier pass; it holds no error state
\* when the pass reported none.
C17_PassReplacesErrorState ==
    trace.pass = "done" =>
        LET input == { trace.errors[i] :
                         i \in { j \in 1..Len(trace.errors) : trace.errors[j] # Null } }
            lines == { d.line : d \in input }
        IN  IF input = {} THEN active \notin DOMAIN errorsByEditorId
            ELSE /\ active \in DOMAIN errorsByEditorId
                 /\ DOMAIN errorsByEditorId[active] = lines
                 /\ \A l \in lines :
                      LET group == errorsByEditorId[active][l]
                      IN  /\ \A i \in 1..Len(group) :
                               group[i] \in input /\ group[i].line = l
                          /\ \A d \in input :
                               d.line = l => Count(group, d) = Count(trace.errors, d)

\* a pass that reported lines 1 and 3 ran on an editor whose error state
\* came from a pass with other diagnostics
C17_Witness ==
    /\ trace.pass = "done"
    /\ trace.replaced
    /\ active \in DOMAIN errorsByEditorId
    /\ DOMAIN errorsByEditorId[active] = {1, 3}

\* the value of a map at a key, or a value of its own for a missing key
Entry(obj, e) == IF e \in DOMAIN obj THEN << obj[e] >> ELSE << >>

\* the markers and tooltips the host shows for an editor
OnScreen(e) ==
    << [at \in { x \in DOMAIN hostMarkers : x[1] = e } |-> hostMarkers[at]],
       [at \in { x \in DOMAIN tooltips : x[1] = e } |-> tooltips[at]] >>

\* C18: a step that runs lint(), started by the command, by registerEvents
\* or by a debounce timer of any editor, leaves the error state, the marker
\* state and the markers and tooltips on screen of every editor other than
\* the active one as they were.
C18_LintStep ==
    trace'.pass # "none" =>
        \A e \in EditorIds \ {active'} :
            /\ Entry(errorsByEditorId', e) = Entry(errorsByEditorId, e)
            /\ Entry(markersByEditorId', e) = Entry(markersByEditorId, e)
            /\ OnScreen(e)' = OnScreen(e)

C18_PassTouchesActiveOnly == [][C18_LintStep]_vars

\* the debounce timer of an editor that is not the active one ran a pass
\* that changed the active editor's state, while the editor of the timer
\* has an error state and markers of its own
C18_Witness ==
    /\ trace.pass = "done"
    /\ trace.source \in editors \ {active}
    /\ trace.source \in DOMAIN errorsByEditorId
    /\ trace.source \in DOMAIN markersByEditorId
    /\ active \notin DOMAIN errorsByEditorId
    /\ trace.replaced

\* C19: in every reachable state a summary in the status bar shows a
\* diagnostic of the current error state of the active editor.
C19_SummaryOfActiveEditor ==
    statusBar # << >> =>
        /\ active \in DOMAIN errorsByEditorId
        /\ \E l \in DOMAIN errorsByEditorId[active] :
             \E i \in 1..Len(errorsByEditorId[active][l]) :
                 errorsByEditorId[active][l][i] = statusBar[1]

\* C20: in every reachable state a stored error state has at least one
\* group and every group at least one diagnostic, a completed pass without
\* diagnostics leaves no error state, and no updateStatusbar run
\* dereferenced a missing group.
C20_StoredStateNonEmpty ==
    /\ \A e \in DOMAIN errorsByEditorId :
         /\ DOMAIN errorsByEditorId[e] # {}
         /\ \A l \in DOMAIN errorsByEditorId[e] : Len(errorsByEditorId[e][l]) >= 1
    /\ (trace.pass = "done" /\ CompactErrors(trace.errors) = << >>)
           => active \notin DOMAIN errorsByEditorId
    /\ trace.pass # "crashed"

\* the cursor moved to a row without a group and updateStatusbar fell back
\* to the first diagnostic of the first stored group
C20_Witness ==
    /\ trace.op = "cursor"
    /\ trace.statusbarCalls > 0
    /\ active \in DOMAIN errorsByEditorId
    /\ (cursorRow + 1) \notin DOMAIN errorsByEditorId[active]
    /\ statusBar = << Compact(errorsByEditorId[active])[1][1] >>

====
